---------------------------- MODULE Spec2Model ----------------------------
(***************************************************************************)
(* VF2Layout (qiskit/transpiler/passes/layout/vf2_layout.py): the pass     *)
(* that chooses a layout of a circuit onto a coupling graph by subgraph    *)
(* isomorphism, under trial, time and call budgets.                        *)
(*                                                                         *)
(* An optional Python value (x or None) is a sequence of length at most    *)
(* one: None is <<>>, the value x is <<x>>.                                *)
(***************************************************************************)
EXTENDS Integers, Sequences, FiniteSets, TLC

None == <<>>
Some(x) == <<x>>
IsNone(o) == o = <<>>
Val(o) == o[1]

Max(a, b) == IF a >= b THEN a ELSE b

\* VF2LayoutStopReason
SOLUTION_FOUND == "solution found"
NO_SOLUTION_FOUND == "nonexistent solution"
MORE_THAN_2Q == ">2q gates in basis"
VF2LayoutStopReason == {SOLUTION_FOUND, NO_SOLUTION_FOUND, MORE_THAN_2Q}

\* The constant of the default trial cap, max(edges) + 15.
DefaultTrialsMargin == 15

(***************************************************************************)
(* Bounds of the model.                                                    *)
(***************************************************************************)
\* The logical clock advances by 0..MaxTick while one candidate is produced
\* and scored.
MaxTick == 1
\* The largest time_limit, max_trials and call_limit that are configured.
MaxTimeLimit == 2
MaxTrialsArg == 3
MaxCallLimit == 2
\* The trial counter is exact up to MaxPulls, which is above every trial cap,
\* and the clock up to MaxClock, which is above every time limit; beyond them
\* they keep that value.
MaxPulls == 20
MaxClock == MaxTimeLimit + MaxTick

(***************************************************************************)
(* Graphs.  Nodes are 0 .. n-1 (coupling graphs) or 1 .. n (interaction    *)
(* graphs); an undirected graph keeps one ordered pair per edge.           *)
(***************************************************************************)
Graph(n, edges, directed) == [n |-> n, edges |-> edges, directed |-> directed]

HasEdge(g, a, b) ==
    \/ <<a, b>> \in g.edges
    \/ ~g.directed /\ <<b, a>> \in g.edges

EdgeCount(g) == Cardinality(g.edges)

\* One ordered pair per undirected edge: the pair with the smaller tail.
Undirected(edges) ==
    {<<IF e[1] <= e[2] THEN e[1] ELSE e[2], IF e[1] <= e[2] THEN e[2] ELSE e[1]>> : e \in edges}

(***************************************************************************)
(* The devices and the circuits the pass is run on.                        *)
(***************************************************************************)
\* A coupling map: its qubit count and its directed edge list.
Line3 == [n |-> 3, edges |-> {<<0, 1>>, <<1, 2>>}]
Pair2 == [n |-> 2, edges |-> {<<0, 1>>}]
BiLine3 == [n |-> 3, edges |-> {<<0, 1>>, <<1, 0>>, <<1, 2>>, <<2, 1>>}]

\* Calibration data: a two-qubit error per physical edge (either key order).
Calibration == [err |-> [e \in {<<0, 1>>, <<1, 0>>} |-> 3] @@ [e \in {<<1, 2>>, <<2, 1>>} |-> 1]]

\* A target: a coupling-map builder and its own calibration data.
Target3 == [coupling |-> BiLine3, calibration |-> Calibration]

\* A circuit: the size of its one register and its operations' qargs.
CircuitEdge == [num_qubits |-> 3, ops |-> << <<0, 1>> >>]
CircuitLine == [num_qubits |-> 3, ops |-> << <<0, 1>>, <<2>>, <<1, 2>>, <<0, 1>> >>]
CircuitVee == [num_qubits |-> 3, ops |-> << <<1, 0>>, <<1, 2>> >>]
CircuitTriangle == [num_qubits |-> 3, ops |-> << <<0, 1>>, <<1, 2>>, <<2, 0>> >>]
CircuitToffoli == [num_qubits |-> 3, ops |-> << <<0, 1>>, <<0, 1, 2>> >>]
Circuits == {CircuitEdge, CircuitLine, CircuitVee, CircuitTriangle, CircuitToffoli}


(***************************************************************************)
(* vf2_utils.build_interaction_graph(dag, strict_direction).  Its result   *)
(* is None when an operation has more than two qargs, else the graph with  *)
(* one node per qubit of a two-qubit operation (numbered 1, 2, ... in      *)
(* order of first use) and one edge per distinct pair; reverse is the      *)
(* node -> qubit table (reverse_im_graph_node_map) and NodeOf its inverse  *)
(* (im_graph_node_map).                                                    *)
(***************************************************************************)
IndexOf(seq, x) == CHOOSE i \in 1..Len(seq) : seq[i] = x

InSeq(seq, x) == \E i \in 1..Len(seq) : seq[i] = x

AddNode(reverse, q) == IF InSeq(reverse, q) THEN reverse ELSE Append(reverse, q)

AddInteraction(acc, op, strict) ==
    LET rev == AddNode(AddNode(acc.reverse, op[1]), op[2])
        a == IndexOf(rev, op[1])
        b == IndexOf(rev, op[2])
        present == <<a, b>> \in acc.edges \/ (~strict /\ <<b, a>> \in acc.edges)
    IN  [reverse |-> rev,
         edges |-> IF present THEN acc.edges ELSE acc.edges \cup {<<a, b>>}]

RECURSIVE InteractionOf(_, _, _)
InteractionOf(ops, strict, acc) ==
    IF ops = <<>> THEN Some(acc)
    ELSE IF Len(Head(ops)) > 2 THEN None
    ELSE IF Len(Head(ops)) = 2
         THEN InteractionOf(Tail(ops), strict, AddInteraction(acc, Head(ops), strict))
         ELSE InteractionOf(Tail(ops), strict, acc)

build_interaction_graph(circuit, strict) ==
    LET r == InteractionOf(circuit.ops, strict, [reverse |-> <<>>, edges |-> {}])
    IN  IF IsNone(r) THEN None
        ELSE Some([im_graph |-> Graph(Len(Val(r).reverse), Val(r).edges, strict),
                   reverse |-> Val(r).reverse])

NodeOf(reverse, q) == IndexOf(reverse, q)

(***************************************************************************)
(* vf2_utils.shuffle_coupling_graph(coupling_map, seed, strict_direction). *)
(* order is the shuffled node list: physical qubit q becomes node          *)
(* order[q+1] of the shuffled graph, and cm_nodes is the table from a node *)
(* of the shuffled graph back to its physical qubit.  Seed -1 does not     *)
(* shuffle; an integer seed fixes the permutation; with no seed the        *)
(* generator is seeded from the system, so any permutation can come out.   *)
(***************************************************************************)
Perms(n) == {p \in [1..n -> 0..(n - 1)] : \A i, j \in 1..n : p[i] = p[j] => i = j}

Identity(n) == [i \in 1..n |-> i - 1]

\* The permutation an integer seed draws: a rotation by the seed.
SeededShuffle(seed, n) == [i \in 1..n |-> (i - 1 + seed) % n]

ShuffleOrders(seed, n) ==
    IF IsNone(seed) THEN Perms(n)
    ELSE IF Val(seed) = -1 THEN {Identity(n)}
    ELSE {SeededShuffle(Val(seed), n)}

shuffle_coupling_graph(coupling_map, order, strict) ==
    LET moved == {<<order[e[1] + 1], order[e[2] + 1]>> : e \in coupling_map.edges}
    IN  [cm_graph |-> Graph(coupling_map.n, IF strict THEN moved ELSE Undirected(moved), strict),
         cm_nodes |-> [k \in 0..(coupling_map.n - 1) |->
                          (CHOOSE q \in 0..(coupling_map.n - 1) : order[q + 1] = k)]]

(***************************************************************************)
(* vf2_utils.build_average_error_map(target, properties, coupling_map):    *)
(* one error per coupling edge, from the target's calibration data if      *)
(* there is a target, else from the properties, else the default.          *)
(***************************************************************************)
DefaultError == 2

build_average_error_map(target, properties, coupling_map) ==
    LET cal == IF ~IsNone(target) THEN Some(Val(target).calibration) ELSE properties
    IN  [e \in coupling_map.edges |->
            IF ~IsNone(cal) /\ e \in DOMAIN Val(cal).err THEN Val(cal).err[e] ELSE DefaultError]

ErrorOf(avg_error_map, a, b, strict) ==
    IF <<a, b>> \in DOMAIN avg_error_map THEN avg_error_map[<<a, b>>]
    ELSE IF ~strict /\ <<b, a>> \in DOMAIN avg_error_map THEN avg_error_map[<<b, a>>]
    ELSE DefaultError

(***************************************************************************)
(* vf2_utils.score_layout: the sum, over the interaction graph's edges, of *)
(* the error of the physical pair the layout sends the edge to.            *)
(***************************************************************************)
RECURSIVE SumErrors(_, _, _, _, _)
SumErrors(edges, avg_error_map, layout, reverse, strict) ==
    IF edges = {} THEN 0
    ELSE LET e == CHOOSE x \in edges : TRUE
         IN  ErrorOf(avg_error_map, layout[reverse[e[1]]], layout[reverse[e[2]]], strict)
             + SumErrors(edges \ {e}, avg_error_map, layout, reverse, strict)

score_layout(avg_error_map, layout, reverse, im_graph, strict) ==
    SumErrors(im_graph.edges, avg_error_map, layout, reverse, strict)

(***************************************************************************)
(* rustworkx.vf2_mapping(cm_graph, im_graph, subgraph=True,                *)
(* id_order=False, induced=False, call_limit=...): the lazy stream of the  *)
(* embeddings of im_graph into cm_graph.  An embedding is the tuple m with *)
(* m[i] the cm_graph node of im_graph node i.  The engine searches depth   *)
(* first, trying the nodes 0, 1, ... for each interaction node in turn,    *)
(* and enters only feasible partial states; call_limit caps the number of  *)
(* states it enters.                                                       *)
(***************************************************************************)
Feasible(p, cm_graph, im_graph) ==
    /\ \A i, j \in 1..Len(p) : p[i] = p[j] => i = j
    /\ \A e \in im_graph.edges :
          (e[1] <= Len(p) /\ e[2] <= Len(p)) => HasEdge(cm_graph, p[e[1]], p[e[2]])

RECURSIVE SearchFrom(_, _, _, _)
SearchFrom(p, c, cm_graph, im_graph) ==
    IF c >= cm_graph.n THEN <<>>
    ELSE LET q == Append(p, c)
             below == IF ~Feasible(q, cm_graph, im_graph) THEN <<>>
                      ELSE IF Len(q) = im_graph.n THEN <<q>>
                      ELSE SearchFrom(q, 0, cm_graph, im_graph)
         IN  below \o SearchFrom(p, c + 1, cm_graph, im_graph)

AllMappings(cm_graph, im_graph) ==
    IF im_graph.n = 0 THEN << <<>> >> ELSE SearchFrom(<<>>, 0, cm_graph, im_graph)

\* p is entered before or when the search reaches m: it is a prefix of m or
\* lexicographically smaller.
EnteredBy(p, m) ==
    \/ \A i \in 1..Len(p) : p[i] = m[i]
    \/ \E i \in 1..Len(p) : p[i] < m[i] /\ \A j \in 1..(i - 1) : p[j] = m[j]

StateVisits(m, cm_graph, im_graph) ==
    Cardinality({p \in UNION {[1..k -> 0..(cm_graph.n - 1)] : k \in 1..im_graph.n} :
                    Feasible(p, cm_graph, im_graph) /\ EnteredBy(p, m)})

vf2_mapping(cm_graph, im_graph, call_limit) ==
    LET WithinLimit(m) == IsNone(call_limit) \/ StateVisits(m, cm_graph, im_graph) <= Val(call_limit)
    IN  SelectSeq(AllMappings(cm_graph, im_graph), WithinLimit)

(***************************************************************************)
(* Layout({reverse_im_graph_node_map[im_i]: cm_nodes[cm_i] ...}) and       *)
(* Layout.add_register.  A layout is a function from logical qubits to     *)
(* physical qubits.                                                        *)
(***************************************************************************)
\* Faulty variant: the shuffled node is taken for the physical qubit.
LayoutOfUntranslated(mapping, reverse, cm_nodes) ==
    [q \in {reverse[i] : i \in 1..Len(reverse)} |-> mapping[NodeOf(reverse, q)]]

LayoutOf(mapping, reverse, cm_nodes) ==
    [q \in {reverse[i] : i \in 1..Len(reverse)} |-> cm_nodes[mapping[NodeOf(reverse, q)]]]

\* The lowest physical index no qubit of the layout uses.
FreePhysical(layout) ==
    CHOOSE x \in 0..Cardinality(DOMAIN layout) :
        /\ \A q \in DOMAIN layout : layout[q] # x
        /\ \A y \in 0..(x - 1) : \E q \in DOMAIN layout : layout[q] = y

RECURSIVE AddBits(_, _, _)
AddBits(layout, q, num_qubits) ==
    IF q >= num_qubits THEN layout
    ELSE IF q \in DOMAIN layout THEN AddBits(layout, q + 1, num_qubits)
    ELSE AddBits(layout @@ (q :> FreePhysical(layout)), q + 1, num_qubits)

add_register(layout, circuit) == AddBits(layout, 0, circuit.num_qubits)

(***************************************************************************)
(* The state: one pass instance, the property set it publishes to, and the *)
(* invocation of run in progress.                                          *)
(***************************************************************************)
VARIABLES
    self,               \* the VF2Layout instance's attributes
    arg_max_trials,     \* the max_trials argument self was constructed with
    property_set,       \* the keys 'layout' and 'VF2Layout_stop_reason'
    pc,                 \* idle | loop | after | done | raised
    dag,                \* the circuit of the invocation
    im,                 \* build_interaction_graph's result
    cm_graph, cm_nodes, \* shuffle_coupling_graph's result
    mappings,           \* what is left of the engine's stream
    chosen_layout, chosen_layout_score, stop_reason, trials,
    start_time, now,    \* the logical clock, counted from the invocation
    obs,                \* what an observer of the invocation has counted
    prev,               \* the record of the previous invocation
    engine,             \* the kind of stream the matching engine produces
    builds              \* the calls of build_average_error_map made for self

vars == <<self, arg_max_trials, property_set, pc, dag, im, cm_graph, cm_nodes, mappings,
          chosen_layout, chosen_layout_score, stop_reason, trials, start_time, now, obs, prev,
          engine, builds>>

locals == <<im, cm_graph, cm_nodes, mappings, chosen_layout, chosen_layout_score,
            stop_reason, trials, start_time>>

\* VF2Layout.__init__
VF2Layout(coupling_map, strict_direction, seed, call_limit, time_limit, properties, max_trials, target) ==
    [target |-> target,
     coupling_map |-> IF ~IsNone(target) THEN Some(Val(target).coupling) ELSE coupling_map,
     properties |-> properties,
     strict_direction |-> strict_direction,
     seed |-> seed,
     call_limit |-> call_limit,
     time_limit |-> time_limit,
     max_trials |-> max_trials,
     avg_error_map |-> None]

\* What the observer has counted when an invocation begins.
NoObs(before) ==
    [stop_writes |-> 0, layout_writes |-> 0, score_calls |-> 0, last_cost |-> 0,
     before |-> before]

NoLocals ==
    /\ im = None /\ cm_graph = None /\ cm_nodes = None /\ mappings = <<>>
    /\ chosen_layout = None /\ chosen_layout_score = None /\ stop_reason = None
    /\ trials = 0 /\ start_time = 0

Constructed(instance, before) ==
    /\ self = instance
    /\ arg_max_trials = instance.max_trials
    /\ property_set = before
    /\ pc = "idle"
    /\ dag = None
    /\ NoLocals
    /\ now = 0
    /\ obs = NoObs(before)
    /\ prev = None
    /\ builds = 0

\* The property set of a fresh pipeline, and one in which an earlier layout
\* pass left its layout and stop reason.
PriorLayout == [q \in 0..2 |-> q]
FreshPropertySet == [layout |-> None, stop_reason |-> None]
UsedPropertySet == [layout |-> Some(PriorLayout), stop_reason |-> Some(SOLUTION_FOUND)]

\* The matching engine's stream is finite, as vf2_mapping's is on finite
\* graphs, or, as the engine is specified, unbounded: it goes on producing
\* embeddings for as long as it is asked.
Finite == "finite"
Unbounded == "unbounded"

\* The whole stream the engine has for the graphs of the invocation.
WholeStream == vf2_mapping(Val(cm_graph), Val(im).im_graph, self.call_limit)

\* What is left of the stream after its head is pulled.
RestOf(stream, whole) ==
    IF engine = Unbounded /\ Tail(stream) = <<>> THEN whole ELSE Tail(stream)

Count(n) == IF n > MaxPulls THEN MaxPulls ELSE n

Clock(t) == IF t > MaxClock THEN MaxClock ELSE t

Init ==
    /\ engine = Finite
    /\ \E coupling_map \in {None, Some(Line3), Some(Pair2)},
          target \in {None, Some(Target3)},
          properties \in {None, Some(Calibration)},
          strict_direction \in BOOLEAN,
          seed \in {None, Some(-1), Some(1)},
          call_limit \in {None} \cup {Some(n) : n \in 1..MaxCallLimit},
          time_limit \in {None} \cup {Some(n) : n \in 0..MaxTimeLimit},
          max_trials \in {None} \cup {Some(n) : n \in -1..MaxTrialsArg},
          before \in {FreshPropertySet, UsedPropertySet} :
           Constructed(VF2Layout(coupling_map, strict_direction, seed, call_limit, time_limit,
                                 properties, max_trials, target), before)

(***************************************************************************)
(* VF2Layout.run, in steps: the entry up to the loop, one iteration of the *)
(* loop per candidate, the loop's end on an exhausted stream, and the      *)
(* publication.                                                            *)
(***************************************************************************)
\* Faulty variant: the error map is built anew in every run.
CacheMissAlways(instance) == TRUE

\* self.avg_error_map is None
CacheMiss(instance) == IsNone(instance.avg_error_map)

\* Faulty variant: no default trial cap is ever derived.
NoLimitsSetIgnored(instance) == FALSE

\* self.max_trials is None and self.call_limit is None and self.time_limit is None
NoLimitsSet(instance) ==
    IsNone(instance.max_trials) /\ IsNone(instance.call_limit) /\ IsNone(instance.time_limit)

\* max(im_graph_edge_count, cm_graph_edge_count) + 15
DefaultMaxTrials(im_graph, coupling_map) ==
    Max(EdgeCount(im_graph), Cardinality(coupling_map.edges)) + DefaultTrialsMargin

\* Faulty variant: the shortcut for graphs of equal size is never taken.
SameSizeNever(cm, img) == FALSE

\* len(cm_graph) == len(im_graph)
SameSize(cm, img) == cm.n = img.n

\* Faulty variant: the comparison is turned around.
ImprovesReversed(layout_score, chosen_score) == layout_score > chosen_score

\* Faulty variant: a candidate that ties with the best one replaces it.
ImprovesOrTies(layout_score, chosen_score) == layout_score <= chosen_score

\* layout_score < chosen_layout_score
Improves(layout_score, chosen_score) == layout_score < chosen_score

\* Faulty variant: the search stops once the cap is passed, not reached.
TrialsReachedLate(max_trials, n) ==
    ~IsNone(max_trials) /\ Val(max_trials) > 0 /\ n > Val(max_trials)

\* Faulty variant: a cap of zero or less is applied like any other.
TrialsReachedAnySign(max_trials, n) == ~IsNone(max_trials) /\ n >= Val(max_trials)

\* self.max_trials is not None and self.max_trials > 0 and trials >= self.max_trials
TrialsReached(max_trials, n) ==
    ~IsNone(max_trials) /\ Val(max_trials) > 0 /\ n >= Val(max_trials)

\* Faulty variant: the limit must be passed, not reached.
TimeExceededStrictly(time_limit, elapsed_time) ==
    ~IsNone(time_limit) /\ elapsed_time > Val(time_limit)

\* self.time_limit is not None and elapsed_time >= self.time_limit
TimeExceeded(time_limit, elapsed_time) ==
    ~IsNone(time_limit) /\ elapsed_time >= Val(time_limit)

\* Faulty variant: the run returns without a word instead of raising.
MissingCouplingMapSwallowed == "done"

\* raise TranspilerError("coupling_map or target must be specified.")
MissingCouplingMapOutcome == "raised"

\* Faulty variant: the abort is reported as a failed search.
StopReasonOnAbortAsNoSolution == NO_SOLUTION_FOUND

\* VF2LayoutStopReason.MORE_THAN_2Q, published when there is no interaction graph
StopReasonOnAbort == MORE_THAN_2Q

\* Faulty variant: the seed is not handed on, so the shuffle seeds itself.
SeedNotPassed(instance) == None

\* self.seed, as handed to shuffle_coupling_graph
SeedPassed(instance) == instance.seed

\* Faulty variant: the stop reason's write also resets the layout key.
SetStopReasonClearsLayout(ps, reason) == [layout |-> None, stop_reason |-> reason]

\* self.property_set["VF2Layout_stop_reason"] = reason
SetStopReason(ps, reason) == [ps EXCEPT !.stop_reason = reason]

\* Faulty variant: the chosen layout is published without its registers.
SetLayoutBare(ps, layout, circuit) == [ps EXCEPT !.layout = Some(layout)]

\* self.property_set["layout"] = chosen_layout, then add_register for each register
SetLayout(ps, layout, circuit) == [ps EXCEPT !.layout = Some(add_register(layout, circuit))]

\* Faulty variant: no stop reason is chosen when the loop chose no layout.
StopReasonAfterNoDefault(chosen, reason) == reason

\* Faulty variant: the test is made on the retained score, which the shortcut
\* for graphs of equal size leaves unset.
StopReasonAfterByScore(chosen, reason) ==
    IF IsNone(chosen_layout_score) THEN Some(NO_SOLUTION_FOUND) ELSE reason

\* if chosen_layout is None: stop_reason = VF2LayoutStopReason.NO_SOLUTION_FOUND
StopReasonAfter(chosen, reason) == IF IsNone(chosen) THEN Some(NO_SOLUTION_FOUND) ELSE reason

\* Lines 105-143: the configuration check, the cached error map, the two
\* graphs, the default trial cap and the engine's stream.
RunEnter(circuit) ==
    /\ pc = "idle"
    /\ dag' = Some(circuit)
    /\ now' = 0
    /\ UNCHANGED <<arg_max_trials, prev, engine>>
    /\ IF IsNone(self.coupling_map)
       THEN /\ pc' = MissingCouplingMapOutcome
            /\ obs' = NoObs(property_set)
            /\ UNCHANGED <<self, property_set, locals, builds>>
       ELSE LET coupling_map == Val(self.coupling_map)
                avg_error_map ==
                    IF CacheMiss(self)
                    THEN Some(build_average_error_map(self.target, self.properties, coupling_map))
                    ELSE self.avg_error_map
                result == build_interaction_graph(circuit, self.strict_direction)
            IN  /\ builds' = IF CacheMiss(self) THEN Count(builds + 1) ELSE builds
                /\ IF IsNone(result)
                   THEN /\ self' = [self EXCEPT !.avg_error_map = avg_error_map]
                        /\ property_set' = SetStopReason(property_set, Some(StopReasonOnAbort))
                        /\ obs' = [NoObs(property_set) EXCEPT !.stop_writes = 1]
                        /\ pc' = "done"
                        /\ UNCHANGED locals
                   ELSE \E order \in ShuffleOrders(SeedPassed(self), coupling_map.n) :
                           LET shuffled == shuffle_coupling_graph(coupling_map, order,
                                                                  self.strict_direction)
                               max_trials ==
                                   IF NoLimitsSet(self)
                                   THEN Some(DefaultMaxTrials(Val(result).im_graph, coupling_map))
                                   ELSE self.max_trials
                           IN  /\ self' = [self EXCEPT !.avg_error_map = avg_error_map,
                                                       !.max_trials = max_trials]
                               /\ im' = result
                               /\ cm_graph' = Some(shuffled.cm_graph)
                               /\ cm_nodes' = Some(shuffled.cm_nodes)
                               /\ mappings' = vf2_mapping(shuffled.cm_graph, Val(result).im_graph,
                                                          self.call_limit)
                               /\ chosen_layout' = None
                               /\ chosen_layout_score' = None
                               /\ stop_reason' = None
                               /\ start_time' = 0
                               /\ trials' = 0
                               /\ obs' = NoObs(property_set)
                               /\ pc' = "loop"
                               /\ UNCHANGED property_set

\* Lines 144-189: one iteration of the loop, on the next candidate.
Trial ==
    /\ pc = "loop"
    /\ mappings # <<>>
    /\ \E cost \in 0..MaxTick :
        LET mapping == Head(mappings)
            layout == LayoutOf(mapping, Val(im).reverse, Val(cm_nodes))
            same == SameSize(Val(cm_graph), Val(im).im_graph)
            layout_score == score_layout(Val(self.avg_error_map), layout, Val(im).reverse,
                                         Val(im).im_graph, self.strict_direction)
            better == IsNone(chosen_layout) \/ Improves(layout_score, Val(chosen_layout_score))
            elapsed_time == (now + cost) - start_time
        IN  /\ now' = Clock(now + cost)
            /\ mappings' = RestOf(mappings, WholeStream)
            /\ trials' = Count(trials + 1)
            /\ stop_reason' = Some(SOLUTION_FOUND)
            /\ chosen_layout' = IF same \/ better THEN Some(layout) ELSE chosen_layout
            /\ chosen_layout_score' =
                  IF ~same /\ better THEN Some(layout_score) ELSE chosen_layout_score
            /\ pc' = IF \/ same
                        \/ TrialsReached(self.max_trials, trials + 1)
                        \/ TimeExceeded(self.time_limit, elapsed_time)
                     THEN "after" ELSE "loop"
            /\ obs' = [obs EXCEPT !.score_calls = IF same THEN @ ELSE Count(@ + 1),
                                  !.last_cost = cost]
    /\ UNCHANGED <<self, arg_max_trials, property_set, dag, im, cm_graph, cm_nodes,
                   start_time, prev, engine, builds>>

\* Line 144, on a stream with no candidate left: the loop ends.
Exhausted ==
    /\ pc = "loop"
    /\ mappings = <<>>
    /\ \E cost \in 0..MaxTick :
        /\ now' = Clock(now + cost)
        /\ obs' = [obs EXCEPT !.last_cost = cost]
    /\ pc' = "after"
    /\ UNCHANGED <<self, arg_max_trials, property_set, dag, locals, prev, engine, builds>>

\* Lines 190-197.
Publish ==
    /\ pc = "after"
    /\ stop_reason' = StopReasonAfter(chosen_layout, stop_reason)
    /\ IF IsNone(chosen_layout)
       THEN /\ property_set' = SetStopReason(property_set, stop_reason')
            /\ obs' = [obs EXCEPT !.stop_writes = @ + 1]
       ELSE /\ property_set' = SetStopReason(SetLayout(property_set, Val(chosen_layout), Val(dag)),
                                             stop_reason')
            /\ obs' = [obs EXCEPT !.stop_writes = @ + 1, !.layout_writes = @ + 1]
    /\ pc' = "done"
    /\ UNCHANGED <<self, arg_max_trials, dag, im, cm_graph, cm_nodes, mappings, chosen_layout,
                   chosen_layout_score, trials, start_time, now, prev, engine, builds>>

Next == (\E circuit \in Circuits : RunEnter(circuit)) \/ Trial \/ Exhausted \/ Publish

Spec == Init /\ [][Next]_vars

(***************************************************************************)
(* One run of a pass that has a topology and calibration data, in a fresh  *)
(* pipeline: the search loop under every seed and every budget.            *)
(***************************************************************************)
InitSearch ==
    /\ engine = Finite
    /\ \E coupling_map \in {Some(Line3), Some(Pair2)},
          target \in {None, Some(Target3)},
          strict_direction \in BOOLEAN,
          seed \in {None, Some(-1), Some(1)},
          call_limit \in {None} \cup {Some(n) : n \in 1..MaxCallLimit},
          time_limit \in {None} \cup {Some(n) : n \in 0..MaxTimeLimit},
          max_trials \in {None} \cup {Some(n) : n \in -1..MaxTrialsArg} :
           Constructed(VF2Layout(coupling_map, strict_direction, seed, call_limit, time_limit,
                                 Some(Calibration), max_trials, target), FreshPropertySet)

SpecSearch == InitSearch /\ [][Next]_vars

(***************************************************************************)
(* Sequences of invocations: run returns to its caller, which may call it  *)
(* again on the same instance or construct a new instance that differs in  *)
(* max_trials only.  prev keeps what the invocation that returned did.     *)
(***************************************************************************)
\* What the invocation published: nothing when it raised.
Published(key_writes, value) == IF key_writes > 0 THEN value ELSE None

\* The score of the layout the invocation chose.
ChosenScore ==
    IF IsNone(chosen_layout) THEN None
    ELSE Some(score_layout(Val(self.avg_error_map), Val(chosen_layout), Val(im).reverse,
                           Val(im).im_graph, self.strict_direction))

Return ==
    /\ pc \in {"done", "raised"}
    /\ prev' = Some([dag |-> Val(dag),
                     arg_max_trials |-> arg_max_trials,
                     max_trials |-> self.max_trials,
                     raised |-> pc = "raised",
                     stop_reason |-> Published(obs.stop_writes, property_set.stop_reason),
                     layout |-> Published(obs.layout_writes, property_set.layout),
                     score |-> ChosenScore])
    /\ pc' = "idle"
    /\ dag' = None
    /\ im' = None /\ cm_graph' = None /\ cm_nodes' = None /\ mappings' = <<>>
    /\ chosen_layout' = None /\ chosen_layout_score' = None /\ stop_reason' = None
    /\ trials' = 0 /\ start_time' = 0 /\ now' = 0
    /\ obs' = NoObs(property_set)
    /\ UNCHANGED <<self, arg_max_trials, property_set, engine, builds>>

\* VF2Layout(...) again, with the same arguments but for max_trials.
Construct(max_trials) ==
    /\ pc = "idle"
    /\ self' = VF2Layout(self.coupling_map, self.strict_direction, self.seed, self.call_limit,
                         self.time_limit, self.properties, max_trials, self.target)
    /\ arg_max_trials' = max_trials
    /\ builds' = 0
    /\ UNCHANGED <<property_set, pc, dag, locals, now, obs, prev, engine>>

InitSeq ==
    /\ engine = Finite
    /\ \E strict_direction \in BOOLEAN,
          seed \in {Some(-1), Some(1)},
          time_limit \in {None} \cup {Some(n) : n \in 0..MaxTimeLimit},
          max_trials \in {None} \cup {Some(n) : n \in -1..MaxTrialsArg} :
           Constructed(VF2Layout(Some(Line3), strict_direction, seed, None, time_limit,
                                 Some(Calibration), max_trials, None), FreshPropertySet)

NextSeq ==
    \/ Next
    \/ Return
    \/ \E max_trials \in {None} \cup {Some(n) : n \in -1..MaxTrialsArg} : Construct(max_trials)

SpecSeq == InitSeq /\ [][NextSeq]_vars

(***************************************************************************)
(* Repeated runs of one instance whose calibration input the caller        *)
(* replaces between runs: properties is a plain attribute of the pass.     *)
(***************************************************************************)
\* pass_.properties = properties, between two invocations of run
Reconfigure(properties) ==
    /\ pc = "idle"
    /\ properties # self.properties
    /\ self' = [self EXCEPT !.properties = properties]
    /\ UNCHANGED <<arg_max_trials, property_set, pc, dag, locals, now, obs, prev, engine,
                   builds>>

NextReconf ==
    \/ Next
    \/ Return
    \/ \E properties \in {None, Some(Calibration)} : Reconfigure(properties)

SpecReconf == InitSeq /\ [][NextReconf]_vars

(***************************************************************************)
(* Progress of one invocation, on a finite or an unbounded stream.  Each   *)
(* request made of the engine returns, with a candidate or with the end of *)
(* the stream, and the code after the loop runs to its end: the steps of   *)
(* run are taken when they can be.  Whether the clock advances is left to  *)
(* the behaviour.                                                          *)
(***************************************************************************)
InitLive ==
    /\ engine \in {Finite, Unbounded}
    /\ \E coupling_map \in {Some(Line3), Some(Pair2)},
          strict_direction \in BOOLEAN,
          call_limit \in {None, Some(MaxCallLimit)},
          time_limit \in {None} \cup {Some(n) : n \in 0..MaxTimeLimit},
          max_trials \in {None} \cup {Some(n) : n \in -1..MaxTrialsArg} :
           Constructed(VF2Layout(coupling_map, strict_direction, Some(-1), call_limit,
                                 time_limit, Some(Calibration), max_trials, None),
                       FreshPropertySet)

SpecLive ==
    InitLive /\ [][Next]_vars /\ WF_vars(Trial) /\ WF_vars(Exhausted) /\ WF_vars(Publish)

(***************************************************************************)
(* The claims.                                                             *)
(***************************************************************************)
HasCouplingMap == ~IsNone(self.coupling_map)

\* C1: an invocation of run on a pass that has a coupling map returns (it
\* never raises) having written property_set['VF2Layout_stop_reason']
\* exactly once, and the value is one of the three stop reasons; until it
\* returns it has not written the key.
C1_StopReasonPublishedOnce ==
    /\ obs.stop_writes <= 1
    /\ pc # "done" => obs.stop_writes = 0
    /\ (HasCouplingMap /\ ~IsNone(dag)) => pc \in {"loop", "after", "done"}
    /\ pc = "done" =>
          /\ obs.stop_writes = 1
          /\ ~IsNone(property_set.stop_reason)
          /\ Val(property_set.stop_reason) \in VF2LayoutStopReason

\* A run whose stream a call limit cut to nothing overwrites the stop reason
\* an earlier pass left, with NO_SOLUTION_FOUND.
C1_Witness ==
    /\ pc = "done"
    /\ obs.stop_writes = 1
    /\ property_set.stop_reason = Some(NO_SOLUTION_FOUND)
    /\ obs.before.stop_reason = Some(SOLUTION_FOUND)
    /\ ~IsNone(self.call_limit)
    /\ trials = 0

\* C2: a run writes property_set['layout'] if and only if the stop reason it
\* publishes is SOLUTION_FOUND; a run that ends in NO_SOLUTION_FOUND or
\* MORE_THAN_2Q leaves the 'layout' key as it found it and writes the stop
\* reason only.
C2_LayoutWrittenIffSolutionFound ==
    /\ obs.layout_writes <= 1
    /\ pc # "done" => (obs.layout_writes = 0 /\ property_set.layout = obs.before.layout)
    /\ pc = "done" =>
          /\ obs.layout_writes = 1 <=> property_set.stop_reason = Some(SOLUTION_FOUND)
          /\ obs.layout_writes = 1 =>
                property_set.layout = Some(add_register(Val(chosen_layout), Val(dag)))
          /\ property_set.stop_reason \in {Some(NO_SOLUTION_FOUND), Some(MORE_THAN_2Q)} =>
                /\ obs.layout_writes = 0
                /\ property_set.layout = obs.before.layout
                /\ obs.stop_writes = 1

\* A run that found no solution leaves an earlier pass's layout in place.
C2_Witness ==
    /\ pc = "done"
    /\ property_set.stop_reason = Some(NO_SOLUTION_FOUND)
    /\ property_set.layout = Some(PriorLayout)
    /\ obs.layout_writes = 0

\* The circuit's two-qubit operations, read off the circuit itself.
TwoQubitOps(circuit) ==
    {circuit.ops[i] : i \in {j \in 1..Len(circuit.ops) : Len(circuit.ops[j]) = 2}}

HasWideOp(circuit) == \E i \in 1..Len(circuit.ops) : Len(circuit.ops[i]) > 2

UsedQubits(circuit) == UNION {{op[1], op[2]} : op \in TwoQubitOps(circuit)}

\* (a, b) is an edge of the coupling map as given, un-shuffled.
CouplingEdge(coupling_map, a, b, strict) ==
    \/ <<a, b>> \in coupling_map.edges
    \/ ~strict /\ <<b, a>> \in coupling_map.edges

RespectsCoupling(layout, circuit, coupling_map, strict) ==
    \A op \in TwoQubitOps(circuit) :
        /\ op[1] \in DOMAIN layout
        /\ op[2] \in DOMAIN layout
        /\ CouplingEdge(coupling_map, layout[op[1]], layout[op[2]], strict)

\* The interaction graph is isomorphic to a subgraph of the coupling graph.
Embeddable(circuit, coupling_map, strict) ==
    /\ ~HasWideOp(circuit)
    /\ \E f \in [UsedQubits(circuit) -> 0..(coupling_map.n - 1)] :
          /\ \A a, b \in UsedQubits(circuit) : f[a] = f[b] => a = b
          /\ RespectsCoupling(f, circuit, coupling_map, strict)

EmbeddableRun ==
    /\ pc = "done"
    /\ HasCouplingMap
    /\ Embeddable(Val(dag), Val(self.coupling_map), self.strict_direction)

PublishedLayoutRespectsCoupling ==
    /\ ~IsNone(property_set.layout)
    /\ RespectsCoupling(Val(property_set.layout), Val(dag), Val(self.coupling_map),
                        self.strict_direction)

\* C3 as claimed: for a circuit whose interaction graph embeds in the
\* coupling graph the run returns SOLUTION_FOUND with a layout that sends
\* every interaction edge to an edge of the un-shuffled coupling graph (in
\* its direction under strict_direction), for every seed and every
\* call_limit, time_limit and max_trials.
C3_Claimed ==
    EmbeddableRun =>
        /\ property_set.stop_reason = Some(SOLUTION_FOUND)
        /\ PublishedLayoutRespectsCoupling

\* C3 as amended: the same for every seed, time_limit and max_trials when
\* call_limit is not configured; with a call_limit the engine may stop before
\* its first embedding and the run ends in NO_SOLUTION_FOUND, but a layout
\* published with SOLUTION_FOUND still sends every interaction edge to an
\* edge of the un-shuffled coupling graph.
C3_EmbeddableFoundWithoutCallLimit ==
    EmbeddableRun =>
        /\ IsNone(self.call_limit) => property_set.stop_reason = Some(SOLUTION_FOUND)
        /\ property_set.stop_reason = Some(SOLUTION_FOUND) => PublishedLayoutRespectsCoupling

\* A directed, shuffled search under a zero time limit publishes a layout.
C3_Witness ==
    /\ EmbeddableRun
    /\ IsNone(self.call_limit)
    /\ self.strict_direction
    /\ self.seed = Some(1)
    /\ self.time_limit = Some(0)
    /\ property_set.stop_reason = Some(SOLUTION_FOUND)
    /\ PublishedLayoutRespectsCoupling

\* C4: for a circuit with an operation on three or more qubits, on a pass
\* that has a topology and whatever the budgets, run goes from its entry
\* straight to the published stop reason MORE_THAN_2Q: the search is never
\* entered, no candidate is pulled (the trial count stays 0) and the layout
\* key is not written.
C4_WideOperationAborts ==
    (~IsNone(dag) /\ HasWideOp(Val(dag)) /\ HasCouplingMap) =>
        /\ pc = "done"
        /\ property_set.stop_reason = Some(MORE_THAN_2Q)
        /\ obs.stop_writes = 1
        /\ trials = 0
        /\ IsNone(im) /\ IsNone(cm_graph) /\ mappings = <<>>
        /\ obs.score_calls = 0
        /\ obs.layout_writes = 0
        /\ property_set.layout = obs.before.layout

\* The abort on a configured device with all three budgets set.
C4_Witness ==
    /\ pc = "done"
    /\ Val(dag) = CircuitToffoli
    /\ HasCouplingMap
    /\ ~IsNone(self.max_trials) /\ ~IsNone(self.time_limit) /\ ~IsNone(self.call_limit)
    /\ property_set.stop_reason = Some(MORE_THAN_2Q)

\* C5: run on a pass constructed with neither a coupling map nor a target
\* raises: the instance exists (construction succeeded), and when run has
\* been entered it has raised with no error map built or cached, no
\* interaction graph, no shuffled graph, no candidate pulled and the
\* property set as it was.
C5_NoCouplingMapRaises ==
    (IsNone(self.coupling_map) /\ ~IsNone(dag)) =>
        /\ pc = "raised"
        /\ IsNone(self.avg_error_map)
        /\ IsNone(im) /\ IsNone(cm_graph) /\ IsNone(cm_nodes)
        /\ mappings = <<>> /\ trials = 0
        /\ obs.stop_writes = 0 /\ obs.layout_writes = 0
        /\ property_set = obs.before
        /\ self.max_trials = arg_max_trials

\* run has raised on a pass without topology, on a two-qubit circuit.
C5_Witness ==
    /\ pc = "raised"
    /\ IsNone(self.coupling_map) /\ IsNone(self.target)
    /\ Val(dag) = CircuitLine
    /\ property_set = UsedPropertySet

\* The first embedding of the engine's stream for the graphs of the state.
FirstEmbedding ==
    LayoutOf(Head(vf2_mapping(Val(cm_graph), Val(im).im_graph, self.call_limit)),
             Val(im).reverse, Val(cm_nodes))

EqualSizes == ~IsNone(im) /\ Val(cm_graph).n = Val(im).im_graph.n

\* C6: when the shuffled coupling graph and the interaction graph have as
\* many nodes, the scorer is never called and at most one candidate is
\* pulled; if the engine produces an embedding the search ends after that
\* one trial, whatever max_trials and time_limit are, and the layout chosen
\* and published is the first embedding of the stream.
C6_EqualSizeShortcut ==
    EqualSizes =>
        /\ obs.score_calls = 0
        /\ trials <= 1
        /\ pc = "loop" => trials = 0
        /\ trials = 1 =>
              /\ pc \in {"after", "done"}
              /\ chosen_layout = Some(FirstEmbedding)
              /\ IsNone(chosen_layout_score)
              /\ pc = "done" =>
                    /\ property_set.stop_reason = Some(SOLUTION_FOUND)
                    /\ property_set.layout = Some(add_register(FirstEmbedding, Val(dag)))

\* The shortcut ends a search that had a second embedding to try and a trial
\* cap of two.
C6_Witness ==
    /\ EqualSizes
    /\ pc = "done"
    /\ trials = 1
    /\ mappings # <<>>
    /\ self.max_trials = Some(2)
    /\ IsNone(self.time_limit)
    /\ property_set.stop_reason = Some(SOLUTION_FOUND)

(***************************************************************************)
(* Two runs compared: the invocation that has just ended and the one       *)
(* before it, on the same circuit.  Every argument of the pass but         *)
(* max_trials is the same in both.                                         *)
(***************************************************************************)
SameCircuitAgain ==
    /\ pc = "done"
    /\ ~IsNone(prev)
    /\ Val(prev).dag = Val(dag)

ScoresToCompare ==
    /\ SameCircuitAgain
    /\ IsNone(self.time_limit)
    /\ ~IsNone(Val(prev).arg_max_trials) /\ ~IsNone(arg_max_trials)
    /\ ~IsNone(Val(prev).score) /\ ~IsNone(ChosenScore)

\* C7 as claimed: of two runs that differ only in max_trials, m1 < m2, with
\* no time limit, the one with m2 chooses a layout whose score is at most
\* the score of the one with m1, for all integers m1 and m2.
C7_Claimed ==
    (ScoresToCompare /\ Val(Val(prev).arg_max_trials) < Val(arg_max_trials)) =>
        Val(ChosenScore) <= Val(Val(prev).score)

\* C7 as amended: the same, except when m1 <= 0 < m2: a max_trials <= 0 sets
\* no limit, so the run with m1 tries every candidate and the run with the
\* positive m2 may stop before the best one.
C7_MoreTrialsNeverWorse ==
    (/\ ScoresToCompare
     /\ Val(Val(prev).arg_max_trials) < Val(arg_max_trials)
     /\ ~(Val(Val(prev).arg_max_trials) <= 0 /\ Val(arg_max_trials) > 0)) =>
        Val(ChosenScore) <= Val(Val(prev).score)

\* A second trial finds a strictly better layout than the one trial before.
C7_Witness ==
    /\ ScoresToCompare
    /\ Val(prev).arg_max_trials = Some(1)
    /\ arg_max_trials = Some(2)
    /\ Val(ChosenScore) < Val(Val(prev).score)

PublishedNow ==
    [stop_reason |-> Published(obs.stop_writes, property_set.stop_reason),
     layout |-> Published(obs.layout_writes, property_set.layout)]

PublishedBefore == [stop_reason |-> Val(prev).stop_reason, layout |-> Val(prev).layout]

C9_TimeLimitRespected ==
    (~IsNone(self.time_limit) /\ ~IsNone(im)) =>
        /\ (pc = "loop" /\ trials > 0) => now - start_time < Val(self.time_limit)
        /\ pc \in {"after", "done"} =>
              now - start_time <= Val(self.time_limit) + obs.last_cost

\* The time limit alone ends a search: no trial cap, graphs of different
\* sizes, and a candidate left in the stream.
C9_Witness ==
    /\ pc = "after"
    /\ self.time_limit = Some(1)
    /\ ~IsNone(im) /\ ~EqualSizes
    /\ IsNone(self.max_trials)
    /\ trials = 2
    /\ mappings # <<>>
    /\ now - start_time = 1

\* C10: in every run of a pass constructed with none of max_trials,
\* call_limit and time_limit, the trial cap in force is
\* max(interaction edges of this run's circuit, coupling edges) + 15, and in
\* a pass constructed with any of the three the cap is the max_trials given.
C10_Claimed ==
    (pc \in {"loop", "after", "done"} /\ ~IsNone(im)) =>
        self.max_trials =
            IF IsNone(arg_max_trials) /\ IsNone(self.call_limit) /\ IsNone(self.time_limit)
            THEN Some(DefaultMaxTrials(Val(im).im_graph, Val(self.coupling_map)))
            ELSE arg_max_trials

(***************************************************************************)
(* The search's end.                                                       *)
(***************************************************************************)
\* The search of the invocation has ended (the loop was left).
SearchEnded == ~IsNone(im) /\ pc \in {"after", "done"}

\* C11: with max_trials configured to a value <= 0, no time_limit and graphs
\* of unequal node counts, the search ends only when the stream is exhausted
\* and has then pulled every candidate of it; and in any configuration, a
\* search that ended with a candidate left in the stream ended on equal
\* sizes, on a positive max_trials reached or on the time limit exceeded.
C11_NonPositiveMaxTrialsUnlimited ==
    SearchEnded =>
        /\ (/\ ~IsNone(arg_max_trials) /\ Val(arg_max_trials) <= 0
            /\ IsNone(self.time_limit)
            /\ ~EqualSizes) =>
              /\ mappings = <<>>
              /\ trials = Len(WholeStream)
        /\ mappings # <<>> =>
              \/ EqualSizes
              \/ /\ ~IsNone(self.max_trials) /\ Val(self.max_trials) > 0
                 /\ trials >= Val(self.max_trials)
              \/ /\ ~IsNone(self.time_limit)
                 /\ now - start_time >= Val(self.time_limit)

\* A search with max_trials = 0 that went through four candidates.
C11_Witness ==
    /\ SearchEnded
    /\ pc = "done"
    /\ arg_max_trials = Some(0)
    /\ IsNone(self.time_limit)
    /\ ~EqualSizes
    /\ trials = 4
    /\ mappings = <<>>
    /\ property_set.stop_reason = Some(SOLUTION_FOUND)

(***************************************************************************)
(* The published layout.                                                   *)
(***************************************************************************)
Injective(f) == \A a, b \in DOMAIN f : f[a] = f[b] => a = b

RegisterQubits(circuit) == 0..(circuit.num_qubits - 1)

\* The run has published a layout with SOLUTION_FOUND.
SolutionPublished ==
    /\ pc = "done"
    /\ obs.layout_writes = 1
    /\ property_set.stop_reason = Some(SOLUTION_FOUND)

\* The layout agrees, on the qubits of the interaction graph, with an
\* embedding of the engine's stream read through the shuffle table.
KeepsAnEmbedding(layout) ==
    \E stream \in {WholeStream} :
        \E i \in 1..Len(stream) :
            \A q \in UsedQubits(Val(dag)) :
                /\ q \in DOMAIN layout
                /\ layout[q] = Val(cm_nodes)[stream[i][IndexOf(Val(im).reverse, q)]]

CandidateLayout(k) == LayoutOf(WholeStream[k], Val(im).reverse, Val(cm_nodes))

CandidateScore(k) ==
    score_layout(Val(self.avg_error_map), CandidateLayout(k), Val(im).reverse,
                 Val(im).im_graph, self.strict_direction)

\* The earliest of the first k scores that is the least of them.
EarliestMin(score, k) ==
    CHOOSE b \in 1..k :
        /\ \A i \in 1..k : score[b] <= score[i]
        /\ \A i \in 1..(b - 1) : score[i] > score[b]

\* The earliest trial among 1..k whose candidate has the least score.
EarliestBest(k) == EarliestMin([i \in 1..k |-> CandidateScore(i)], k)

Scoring == ~IsNone(im) /\ ~EqualSizes /\ pc \in {"loop", "after", "done"}

\* C13: with graphs of unequal node counts, after every trial k the retained
\* layout and score are those of the candidate with the least score among
\* trials 1..k, the earliest of them when several share it; the retained
\* score never increases from one trial to the next, and the layout
\* published is the earliest least-score candidate of those consumed.
C13_BestSoFarStable ==
    Scoring =>
        \A stream \in {WholeStream} :
        \A layout \in {[k \in 1..Len(stream) |->
                           LayoutOf(stream[k], Val(im).reverse, Val(cm_nodes))]} :
        \A score \in {[k \in 1..Len(stream) |->
                          score_layout(Val(self.avg_error_map), layout[k], Val(im).reverse,
                                       Val(im).im_graph, self.strict_direction)]} :
        \A best \in {[k \in 1..trials |-> EarliestMin(score, k)]} :
            /\ trials = Len(stream) - Len(mappings)
            /\ trials = 0 => (IsNone(chosen_layout) /\ IsNone(chosen_layout_score))
            /\ trials > 0 =>
                  /\ chosen_layout = Some(layout[best[trials]])
                  /\ chosen_layout_score = Some(score[best[trials]])
                  /\ \A k \in 1..(trials - 1) :
                        /\ score[best[k + 1]] <= score[best[k]]
                        /\ best[k] <= best[k + 1]
                  /\ pc = "done" =>
                        property_set.layout =
                            Some(add_register(layout[best[trials]], Val(dag)))

\* A search of four trials whose third candidate ties with the first, is
\* another layout, and is not the one retained.
C13_Witness ==
    /\ Scoring
    /\ pc = "done"
    /\ trials = 4
    /\ EarliestBest(4) = 1
    /\ CandidateScore(3) = CandidateScore(1)
    /\ CandidateLayout(3) # CandidateLayout(1)
    /\ CandidateScore(2) > CandidateScore(1)
    /\ chosen_layout = Some(CandidateLayout(1))

\* C14: for a circuit with no operation on more than two qubits, the stop
\* reason a run publishes is NO_SOLUTION_FOUND exactly when the engine's
\* stream produced no candidate in the run (it was empty and no trial was
\* made) and SOLUTION_FOUND exactly when at least one candidate was pulled;
\* whatever max_trials and time_limit are, a time_limit of 0 included, a run
\* in which a candidate was pulled publishes SOLUTION_FOUND and a layout.
C14_NoSolutionIffNoCandidate ==
    (pc = "done" /\ ~HasWideOp(Val(dag))) =>
        /\ ~IsNone(im)
        /\ property_set.stop_reason \in {Some(NO_SOLUTION_FOUND), Some(SOLUTION_FOUND)}
        /\ property_set.stop_reason = Some(NO_SOLUTION_FOUND) <=> trials = 0
        /\ property_set.stop_reason = Some(SOLUTION_FOUND) <=> trials >= 1
        /\ trials = 0 => (mappings = <<>> /\ WholeStream = <<>> /\ obs.layout_writes = 0)
        /\ trials >= 1 => obs.layout_writes = 1

\* Under a time limit of 0 the one candidate pulled is published, with
\* candidates left in the stream.
C14_Witness ==
    /\ pc = "done"
    /\ ~HasWideOp(Val(dag))
    /\ self.time_limit = Some(0)
    /\ ~EqualSizes
    /\ trials = 1
    /\ mappings # <<>>
    /\ property_set.stop_reason = Some(SOLUTION_FOUND)
    /\ obs.layout_writes = 1

\* max_trials was given to the constructor and is positive, and the search
\* of the invocation has begun.
PositiveCapConfigured ==
    /\ ~IsNone(arg_max_trials)
    /\ Val(arg_max_trials) > 0
    /\ ~IsNone(im)

\* The best candidate of the trials made: the first under the shortcut for
\* graphs of equal size, else the earliest of least score.
BestSoFar ==
    IF EqualSizes THEN CandidateLayout(1) ELSE CandidateLayout(EarliestBest(trials))

TrialsWithinCap ==
    PositiveCapConfigured =>
        /\ trials <= Val(arg_max_trials)
        /\ trials = Val(arg_max_trials) =>
              /\ pc \in {"after", "done"}
              /\ chosen_layout = Some(BestSoFar)
              /\ pc = "done" =>
                    /\ property_set.stop_reason = Some(SOLUTION_FOUND)
                    /\ property_set.layout = Some(add_register(BestSoFar, Val(dag)))

\* With the cap reached, a step of the invocation pulls no candidate.
NoPullAtCap ==
    (PositiveCapConfigured /\ trials = Val(arg_max_trials) /\ ~IsNone(im')) =>
        (trials' = trials /\ mappings' = mappings)

\* C15: with max_trials configured and positive, in every state of the
\* search the trial counter is at most max_trials; once it has reached
\* max_trials no further candidate is pulled and the run ends in
\* SOLUTION_FOUND with the best layout of the trials made.
C15_TrialCap == []TrialsWithinCap /\ [][NoPullAtCap]_vars

\* A cap of two ends a search, with no time limit, that had candidates left.
C15_Witness ==
    /\ PositiveCapConfigured
    /\ arg_max_trials = Some(2)
    /\ IsNone(self.time_limit)
    /\ ~EqualSizes
    /\ pc = "done"
    /\ trials = 2
    /\ mappings # <<>>
    /\ property_set.stop_reason = Some(SOLUTION_FOUND)

(***************************************************************************)
(* Termination.                                                            *)
(***************************************************************************)
Searching == pc = "loop"

Terminated == pc = "done" /\ ~IsNone(property_set.stop_reason)

\* The stream comes to an end: the engine is finite or has no embedding.
StreamFinite == engine = Finite \/ WholeStream = <<>>

\* The trial cap in force, self.max_trials as the loop reads it, is positive.
CapInForcePositive == ~IsNone(self.max_trials) /\ Val(self.max_trials) > 0

\* None of the three budgets was given to the constructor.
NoBudgetConfigured ==
    IsNone(arg_max_trials) /\ IsNone(self.call_limit) /\ IsNone(self.time_limit)

\* A trial during which the clock moves.
Tick == Trial /\ now' > now

\* The clock advances: it moves during a trial again and again, as long as
\* there are trials.
ClockAdvances == SF_vars(Tick)

\* C16: provided every request made of the engine returns, a search ends
\* with a stop reason published when the stream is finite, or the graphs
\* have equal node counts, or the trial cap in force is positive, or, the
\* clock advancing, a time_limit is configured; and a search of a pass with
\* none of the budgets configured ends, on an unbounded stream too.
C16_Termination ==
    /\ (Searching /\ (StreamFinite \/ EqualSizes \/ CapInForcePositive)) ~> Terminated
    /\ ClockAdvances => ((Searching /\ ~IsNone(self.time_limit)) ~> Terminated)
    /\ (Searching /\ NoBudgetConfigured) ~> Terminated

\* On an unbounded stream a pass with no budget configured stops at the
\* default cap of 17 trials, with candidates still to come.
C16_Witness ==
    /\ Terminated
    /\ engine = Unbounded
    /\ NoBudgetConfigured
    /\ ~EqualSizes
    /\ self.max_trials = Some(17)
    /\ trials = 17
    /\ mappings # <<>>
    /\ property_set.stop_reason = Some(SOLUTION_FOUND)

(***************************************************************************)
(* The cached error map.                                                   *)
(***************************************************************************)
\* run has been entered on a pass that has a coupling map.
PastConfigurationCheck == HasCouplingMap /\ ~IsNone(dag) /\ pc # "idle"

ErrorMapBuiltOnce ==
    /\ builds <= 1
    /\ builds = 0 <=> IsNone(self.avg_error_map)
    /\ PastConfigurationCheck => builds = 1

\* Once cached, the map of the instance is what every later step finds.
ErrorMapKept ==
    (~IsNone(self.avg_error_map) /\ builds' # 0) =>
        (self'.avg_error_map = self.avg_error_map /\ builds' = builds)

\* C17: across the runs of one pass instance the averaged error map is built
\* at most once: by the first run that passes the configuration check,
\* whether or not the circuit then turns out to have an operation on more
\* than two qubits; every later run and every trial finds that same map in
\* the cache and leaves it as it is.
C17_ErrorMapComputedOnce == []ErrorMapBuiltOnce /\ [][ErrorMapKept]_vars

\* A run that scored several candidates with the map that the run before it,
\* which ended in MORE_THAN_2Q, had built.
C17_Witness ==
    /\ pc = "done"
    /\ ~IsNone(prev)
    /\ Val(prev).stop_reason = Some(MORE_THAN_2Q)
    /\ self.properties = Some(Calibration)
    /\ builds = 1
    /\ obs.score_calls >= 2
    /\ property_set.stop_reason = Some(SOLUTION_FOUND)

\* C18: in every run the error map used for scoring is the one
\* build_average_error_map gives for the coupling map, properties and target
\* the instance has at that run; after a change of one of them between two
\* runs the second run uses the map of the new inputs.
C18_Claimed ==
    (PastConfigurationCheck /\ pc \in {"loop", "after", "done"}) =>
        self.avg_error_map =
            Some(build_average_error_map(self.target, self.properties, Val(self.coupling_map)))
=============================================================================
